---- MODULE Spec2Model ----
(***************************************************************************)
(* PostKit: the markdown parser, the content normalization engine          *)
(* (truncation, thread chunker, summary, e-mail document) and the          *)
(* AT-Protocol publisher.                                                  *)
(*                                                                         *)
(* A Python str is a sequence of one-character strings.  Positions are     *)
(* 0-based in the operators that mirror Python calls (rfind, slicing) and  *)
(* 1-based inside TLA+ sequences.                                          *)
(***************************************************************************)
EXTENDS Integers, Sequences, FiniteSets, TLC

VARIABLES
    \* truncate_text called on its own, then on its own result
    t_text, t_max, t_out, t_again, t_pc,
    \* create_thread_chunks(content, title, max_length)
    content, title, max_length, pc, chunks, total,
    suffix_length, new_suffix_length, iteration_count, passes, built,
    \* normalize_for_platforms(post_data, image_path): post_data's content and
    \* title are the two above
    short, tags, html, image_path, norm_pc, summary, hashtags, email_html,
    \* ATProtoPublisher.publish(content) and the command that calls it
    p_thread, p_hashtags, p_image, pub_pc, idx, uploaded, root_ref, parent_ref,
    posts, backend, results, raised, cli_success, cli_failed,
    \* the method of ATProtoPublisher that was called, the thread handed to it,
    \* and the sections of config.yaml the publish command loaded, each with
    \* whether it holds every key its publisher reads
    entry, in_thread, creds,
    \* parse_markdown_post(file_path): the text of the file, the metadata it
    \* finds, the body, and where the call stands
    doc, metadata, p_body, parse_pc

truncVars == <<t_text, t_max, t_out, t_again, t_pc>>
threadVars == <<content, title, max_length, pc, chunks, total,
                suffix_length, new_suffix_length, iteration_count, passes, built>>
normVars == <<short, tags, html, image_path, norm_pc, summary, hashtags, email_html>>
callVars == <<entry, in_thread, creds>>
pubVars == <<p_thread, p_hashtags, p_image, pub_pc, idx, uploaded, root_ref, parent_ref,
             posts, backend, results, raised, cli_success, cli_failed, callVars>>
parseVars == <<doc, metadata, p_body, parse_pc>>
vars == <<truncVars, threadVars, normVars, pubVars, parseVars>>

----------------------------------------------------------------------------
(* Python str primitives *)

SP == " "
NL == "\n"
DOT == "."
HASH == "#"
\* the lead glyphs U+25B8 and U+2022 of the heading rewrites, one code point each
TRI == "tri"
BUL == "bul"

Max2(a, b) == IF a >= b THEN a ELSE b
Min2(a, b) == IF a <= b THEN a ELSE b
SetMin(S) == CHOOSE x \in S : \A y \in S : x <= y
SetMax(S) == 0 - SetMin({0 - x : x \in S})

\* str.isspace for the characters of the model
IsSpace(c) == c \in {SP, NL}

\* s[:k]
PySliceTo(s, k) ==
    LET n == Len(s)
        e == IF k < 0 THEN Max2(n + k, 0) ELSE Min2(k, n)
    IN  SubSeq(s, 1, e)

\* s[k:]
PySliceFrom(s, k) ==
    LET n == Len(s)
        b == IF k < 0 THEN Max2(n + k, 0) ELSE Min2(k, n)
    IN  SubSeq(s, b + 1, n)

\* s.rfind(ch, 0, end): the highest 0-based index below end holding ch, or -1
PyRfind(s, ch, end) ==
    LET n == Len(s)
        e == IF end < 0 THEN Max2(n + end, 0) ELSE Min2(end, n)
        hits == {i \in 0 .. (e - 1) : s[i + 1] = ch}
    IN  IF hits = {} THEN -1 ELSE SetMax(hits)

\* s.strip()
RECURSIVE LStrip(_)
LStrip(s) == IF s # <<>> /\ IsSpace(Head(s)) THEN LStrip(Tail(s)) ELSE s
RECURSIVE RStrip(_)
RStrip(s) ==
    IF s # <<>> /\ IsSpace(s[Len(s)]) THEN RStrip(SubSeq(s, 1, Len(s) - 1)) ELSE s
Strip(s) == RStrip(LStrip(s))

\* the concatenation of a sequence of strings
RECURSIVE Concat(_)
Concat(ss) == IF ss = <<>> THEN <<>> ELSE Head(ss) \o Concat(Tail(ss))

Ellipsis == <<DOT, DOT, DOT>>

----------------------------------------------------------------------------
(* truncate_text *)

truncate_text(text, max_len) ==
    IF Len(text) <= max_len
    THEN text
    ELSE LET found == PyRfind(text, SP, max_len - Len(Ellipsis))
             cutoff == IF found = -1 THEN max_len - Len(Ellipsis) ELSE found
         IN  PySliceTo(text, cutoff) \o Ellipsis

----------------------------------------------------------------------------
(* chunk_content: preprocessing *)

\* the first position >= p (1-based) that holds no whitespace, Len(s)+1 if none
WsEnd(s, p) == SetMin({q \in p .. (Len(s) + 1) : q = Len(s) + 1 \/ ~IsSpace(s[q])})

\* the first position >= p that holds a newline, Len(s)+1 if none: where $ matches
LineEnd(s, p) == SetMin({q \in p .. (Len(s) + 1) : q = Len(s) + 1 \/ s[q] = NL})

\* ^ under re.MULTILINE
AtLineStart(s, p) == p = 1 \/ s[p - 1] = NL

\* re.match of ^#{k}\s+(.+)$ at position p: \s+ is greedy and may cross newlines,
\* .+ needs one character that is no newline and runs to the end of its line;
\* when the whitespace run reaches the end of the text, \s+ gives back down to
\* its last blank, which .+ then takes.  g is where group 1 starts, e is one
\* past the end of the match.
HeadingMatch(s, p, k) ==
    LET w == p + k
        no == [ok |-> FALSE, g |-> 0, e |-> 0]
    IN  IF ~(AtLineStart(s, p) /\ w <= Len(s)
             /\ (\A i \in 0 .. (k - 1) : s[p + i] = HASH) /\ IsSpace(s[w]))
        THEN no
        ELSE LET q == WsEnd(s, w)
             IN  IF q <= Len(s)
                 THEN [ok |-> TRUE, g |-> q, e |-> LineEnd(s, q)]
                 ELSE LET js == {j \in (w + 1) .. Len(s) : s[j] = SP}
                      IN  IF js = {} THEN no
                          ELSE [ok |-> TRUE, g |-> SetMax(js),
                                e |-> LineEnd(s, SetMax(js))]

\* the replacement templates of the three re.sub calls: '', U+25B8 \1, U+2022 \1
HeadingRepl(k, group) ==
    IF k = 1 THEN <<>>
    ELSE IF k = 2 THEN <<TRI, SP>> \o group
    ELSE <<BUL, SP>> \o group

\* re.sub(r'^#{k}\s+(.+)$', repl, s, flags=re.MULTILINE), scanning from p: the
\* text up to the leftmost match, its replacement, and the same from the
\* match's end
RECURSIVE HeadingSub(_, _, _)
HeadingSub(s, k, p) ==
    LET hits == {q \in p .. Len(s) : HeadingMatch(s, q, k).ok}
    IN  IF hits = {} THEN SubSeq(s, p, Len(s))
        ELSE LET q == SetMin(hits)
                 m == HeadingMatch(s, q, k)
             IN  SubSeq(s, p, q - 1)
                     \o HeadingRepl(k, SubSeq(s, m.g, m.e - 1))
                     \o HeadingSub(s, k, m.e)

CleanContent(body) == HeadingSub(HeadingSub(HeadingSub(body, 1, 1), 2, 1), 3, 1)

\* s.split('\n\n'), scanning from p
RECURSIVE SplitBlank(_, _)
SplitBlank(s, p) ==
    LET hits == {q \in p .. (Len(s) - 1) : s[q] = NL /\ s[q + 1] = NL}
    IN  IF hits = {} THEN <<SubSeq(s, p, Len(s))>>
        ELSE <<SubSeq(s, p, SetMin(hits) - 1)>> \o SplitBlank(s, SetMin(hits) + 2)

\* [p.strip() for p in pieces if p.strip()]
RECURSIVE StripNonEmpty(_)
StripNonEmpty(pieces) ==
    IF pieces = <<>> THEN <<>>
    ELSE IF Strip(Head(pieces)) = <<>> THEN StripNonEmpty(Tail(pieces))
         ELSE <<Strip(Head(pieces))>> \o StripNonEmpty(Tail(pieces))

Paragraphs(body) == StripNonEmpty(SplitBlank(CleanContent(body), 1))

Punct == {".", "!", "?"}

\* re.split(r'(?<=[.!?])\s+', s), scanning from p: a match is a whole run of
\* whitespace that follows one of . ! ?
RECURSIVE Sentences(_, _)
Sentences(s, p) ==
    LET hits == {q \in Max2(p, 2) .. Len(s) : s[q - 1] \in Punct /\ IsSpace(s[q])}
    IN  IF hits = {} THEN <<SubSeq(s, p, Len(s))>>
        ELSE <<SubSeq(s, p, SetMin(hits) - 1)>> \o Sentences(s, WsEnd(s, SetMin(hits)))

\* the first position >= p that holds whitespace, Len(s)+1 if none
WordEnd(s, p) == SetMin({q \in p .. (Len(s) + 1) : q = Len(s) + 1 \/ IsSpace(s[q])})

\* s.split(), scanning from p
RECURSIVE Words(_, _)
Words(s, p) ==
    LET b == WsEnd(s, p)
    IN  IF b > Len(s) THEN <<>>
        ELSE <<SubSeq(s, b, WordEnd(s, b) - 1)>> \o Words(s, WordEnd(s, b))

----------------------------------------------------------------------------
(* chunk_content: the greedy packing loops.  Each returns the chunks list as    *)
(* appended to so far and the chunk still being filled.                         *)

FlushFront(acc, chunk) == IF chunk # <<>> THEN <<chunk>> \o acc ELSE acc

\* if chunk: chunks.append(chunk)
Flush(acc, chunk) == IF chunk # <<>> THEN Append(acc, chunk) ELSE acc

\* for word in words
RECURSIVE WordLoop(_, _, _, _, _)
WordLoop(words, k, acc, word_chunk, E) ==
    IF k > Len(words) THEN [chunks |-> acc, cur |-> word_chunk]
    ELSE LET word == words[k]
             test_word_chunk ==
                 IF word_chunk # <<>> THEN Strip(word_chunk \o <<SP>> \o word) ELSE word
         IN  IF Len(test_word_chunk) <= E
             THEN WordLoop(words, k + 1, acc, test_word_chunk, E)
             ELSE WordLoop(words, k + 1, Flush(acc, word_chunk), word, E)

\* for sentence in sentences
RECURSIVE SentenceLoop(_, _, _, _, _)
SentenceLoop(sentences, j, acc, temp_chunk, E) ==
    IF j > Len(sentences) THEN [chunks |-> acc, cur |-> temp_chunk]
    ELSE LET sentence == sentences[j]
             test_sentence ==
                 IF temp_chunk # <<>> THEN Strip(temp_chunk \o <<SP>> \o sentence)
                 ELSE sentence
         IN  IF Len(test_sentence) <= E
             THEN SentenceLoop(sentences, j + 1, acc, test_sentence, E)
             ELSE IF Len(sentence) <= E
                  THEN SentenceLoop(sentences, j + 1, Flush(acc, temp_chunk), sentence, E)
                  ELSE LET w == WordLoop(Words(sentence, 1), 1,
                                         Flush(acc, temp_chunk), <<>>, E)
                       IN  SentenceLoop(sentences, j + 1, w.chunks, w.cur, E)

\* for para in remaining, and the flush after it
RECURSIVE ParagraphLoop(_, _, _, _, _)
ParagraphLoop(remaining, i, acc, current_chunk, E) ==
    IF i > Len(remaining) THEN Flush(acc, current_chunk)
    ELSE LET para == remaining[i]
             test_chunk ==
                 IF current_chunk # <<>> THEN current_chunk \o <<NL, NL>> \o para
                 ELSE para
         IN  IF Len(test_chunk) <= E
             THEN ParagraphLoop(remaining, i + 1, acc, test_chunk, E)
             ELSE IF Len(para) > E
                  THEN LET s == SentenceLoop(Sentences(para, 1), 1,
                                             Flush(acc, current_chunk), <<>>, E)
                       IN  ParagraphLoop(remaining, i + 1, s.chunks, s.cur, E)
                  ELSE ParagraphLoop(remaining, i + 1, Flush(acc, current_chunk), para, E)

\* chunk_content(effective_max_length) for the enclosing call's content and title
chunk_content(body, ttl, E) ==
    LET paragraphs == Paragraphs(body)
        first_chunk == ttl \o <<NL, NL>> \o paragraphs[1]
    IN  IF paragraphs # <<>>
        THEN IF Len(first_chunk) <= E
             THEN ParagraphLoop(Tail(paragraphs), 1, <<first_chunk>>, <<>>, E)
             ELSE ParagraphLoop(paragraphs, 1, <<truncate_text(ttl, E)>>, <<>>, E)
        ELSE <<truncate_text(ttl, E)>>

----------------------------------------------------------------------------
(* create_thread_chunks: markers *)

Digit(d) == <<"0", "1", "2", "3", "4", "5", "6", "7", "8", "9">>[d + 1]

\* str(n) for n >= 0
RECURSIVE Digits(_)
Digits(n) == IF n < 10 THEN <<Digit(n)>> ELSE Digits(n \div 10) \o <<Digit(n % 10)>>

\* f"\n\n({i}/{n})"
Marker(i, n) == <<NL, NL, "(">> \o Digits(i) \o <<"/">> \o Digits(n) \o <<")">>

initial_reserved == 10
LoopCap == 5

\* the width of the marker without the blank line before it
SuffixLengthBare(n) == Len(Marker(n, n)) - 2

\* len(f"\n\n({total}/{total})")
SuffixLength(n) == Len(Marker(n, n))

\* [f"{chunk}\n\n({i+1}/{total})" for i, chunk in enumerate(chunks)]
AppendMarkers(cs, n) == [i \in 1 .. Len(cs) |-> cs[i] \o Marker(i, n)]

\* [chunk if len(chunk) <= max_length else truncate_text(chunk, max_length) ...]
SafetyNet(cs, L) ==
    [i \in 1 .. Len(cs) |-> IF Len(cs[i]) <= L THEN cs[i] ELSE truncate_text(cs[i], L)]

----------------------------------------------------------------------------
(* extract_first_paragraph *)

DASH == "-"

\* the match of ^---\s*\n(.*?)\n---\s*\n (re.DOTALL): a is where the lazy group
\* starts, b the newline before the closing line, e the position after the
\* match, all 0 when the text does not match.  \s* is greedy and gives back to
\* a newline; .*? is lazy, so the closing line is the first one that can close.
FrontmatterMatch(s) ==
    LET \* positions right after a newline that ends the opening line
        starts == {a \in 5 .. (Len(s) + 1) :
                      /\ s[a - 1] = NL
                      /\ \A q \in 4 .. (a - 1) : IsSpace(s[q])}
        lastNL(b) == {q \in (b + 4) .. (WsEnd(s, b + 4) - 1) : s[q] = NL}
        \* positions of a newline that starts a closing line
        closers == {b \in 1 .. (Len(s) - 4) :
                       /\ s[b] = NL
                       /\ s[b + 1] = DASH /\ s[b + 2] = DASH /\ s[b + 3] = DASH
                       /\ lastNL(b) # {}}
        usable == {a \in starts : \E b \in closers : b >= a}
    IN  IF Len(s) < 3 \/ s[1] # DASH \/ s[2] # DASH \/ s[3] # DASH \/ usable = {}
        THEN [a |-> 0, b |-> 0, e |-> 0]
        ELSE LET a == SetMax(usable)
                 b == SetMin({c \in closers : c >= a})
             IN  [a |-> a, b |-> b, e |-> SetMax(lastNL(b)) + 1]

\* where the match ends, as the position after it, or 0 when there is none
FrontmatterEnd(s) == FrontmatterMatch(s).e

\* re.sub(r'^---\s*\n.*?\n---\s*\n', '', content, flags=re.DOTALL)
FrontmatterSub(s) ==
    IF FrontmatterEnd(s) = 0 THEN s ELSE SubSeq(s, FrontmatterEnd(s), Len(s))

\* the length of the run of # that starts at p
HashRun(s, p) == SetMin({q \in p .. (Len(s) + 1) : q = Len(s) + 1 \/ s[q] # HASH}) - p

\* re.match of ^#+\s+.+$ at p
AnyHeadingMatch(s, p) ==
    IF HashRun(s, p) = 0 THEN [ok |-> FALSE, g |-> 0, e |-> 0]
    ELSE HeadingMatch(s, p, HashRun(s, p))

\* re.sub(r'^#+\s+.+$', '', s, flags=re.MULTILINE), scanning from p
RECURSIVE AnyHeadingSub(_, _)
AnyHeadingSub(s, p) ==
    LET hits == {q \in p .. Len(s) : AnyHeadingMatch(s, q).ok}
    IN  IF hits = {} THEN SubSeq(s, p, Len(s))
        ELSE SubSeq(s, p, SetMin(hits) - 1)
                 \o AnyHeadingSub(s, AnyHeadingMatch(s, SetMin(hits)).e)

extract_first_paragraph(body) ==
    LET paragraphs == StripNonEmpty(SplitBlank(AnyHeadingSub(FrontmatterSub(body), 1), 1))
    IN  IF paragraphs # <<>> THEN paragraphs[1] ELSE <<>>

----------------------------------------------------------------------------
(* parse_markdown_post: the frontmatter and the title *)

\* the keys of the frontmatter that parse_markdown_post reads, each one
\* character of the model with its colon
TitleKey == "title:"
ShortKey == "short:"
TagsKey == "tags:"
COMMA == ","

\* "Untitled Post"
DefaultTitle == <<"Untitled Post">>

\* metadata = {}
NoMetadata == [title |-> <<>>, short |-> <<>>, tags |-> <<>>]

\* text.split('\n'), scanning from p
RECURSIVE SplitLines(_, _)
SplitLines(s, p) ==
    LET e == LineEnd(s, p)
    IN  IF e > Len(s) THEN <<SubSeq(s, p, Len(s))>>
        ELSE <<SubSeq(s, p, e - 1)>> \o SplitLines(s, e + 1)

\* the value yaml.safe_load gives a key of a block of "key: value" lines: the
\* rest of the key's line without the blanks around it, of the last such line;
\* empty when the key is missing or has no value
YamlValue(text, key) ==
    LET ls == SplitLines(text, 1)
        at == {i \in 1 .. Len(ls) : ls[i] # <<>> /\ Head(ls[i]) = key}
    IN  IF at = {} THEN <<>> ELSE Strip(Tail(ls[SetMax(at)]))

\* yaml.safe_load(frontmatter_text) or {}
YamlLoad(text) ==
    [title |-> YamlValue(text, TitleKey),
     short |-> YamlValue(text, ShortKey),
     tags |-> YamlValue(text, TagsKey)]

\* tags.split(','), scanning from p
RECURSIVE SplitComma(_, _)
SplitComma(s, p) ==
    LET hits == {q \in p .. Len(s) : s[q] = COMMA}
    IN  IF hits = {} THEN <<SubSeq(s, p, Len(s))>>
        ELSE <<SubSeq(s, p, SetMin(hits) - 1)>> \o SplitComma(s, SetMin(hits) + 1)

\* lines 49-51: no tags give the empty list, a string is split at its commas
ParsedTags(value) ==
    IF value = <<>> THEN <<>>
    ELSE [i \in 1 .. Len(SplitComma(value, 1)) |-> Strip(SplitComma(value, 1)[i])]

\* lines 43-47: re.search(r'^#\s+(.+)$', body, re.MULTILINE), group 1 without
\* the blanks around it, or the default
HeadingTitle(text) ==
    LET hits == {q \in 1 .. Len(text) : HeadingMatch(text, q, 1).ok}
        m == HeadingMatch(text, SetMin(hits), 1)
    IN  IF hits = {} THEN DefaultTitle
        ELSE Strip(SubSeq(text, m.g, m.e - 1))

----------------------------------------------------------------------------
(* basic_markdown_to_html: a tag is one element of the text *)

\* levels 1 to 3 are the ones basic_markdown_to_html writes; the markdown package
\* writes all six
OpenTag(k) == <<"<h1>", "<h2>", "<h3>", "<h4>", "<h5>", "<h6>">>[k]
CloseTag(k) == <<"</h1>", "</h2>", "</h3>", "</h4>", "</h5>", "</h6>">>[k]

\* re.match of ^#{k} (.+)$ at p: k times #, one blank, the rest of the line
MdHeadingMatch(s, p, k) ==
    /\ AtLineStart(s, p)
    /\ p + k + 1 <= Len(s)
    /\ \A i \in 0 .. (k - 1) : s[p + i] = HASH
    /\ s[p + k] = SP
    /\ s[p + k + 1] # NL

\* re.sub(r'^#{k} (.+)$', r'<hk>\1</hk>', s, flags=re.MULTILINE), scanning from p
RECURSIVE MdHeadingSub(_, _, _)
MdHeadingSub(s, k, p) ==
    LET hits == {q \in p .. Len(s) : MdHeadingMatch(s, q, k)}
    IN  IF hits = {} THEN SubSeq(s, p, Len(s))
        ELSE LET q == SetMin(hits)
                 e == LineEnd(s, q + k + 1)
             IN  SubSeq(s, p, q - 1)
                     \o <<OpenTag(k)>> \o SubSeq(s, q + k + 1, e - 1) \o <<CloseTag(k)>>
                     \o MdHeadingSub(s, k, e)

\* f'<p>{p}</p>' if not p.startswith('<h') else p
WrapBlock(block) ==
    IF block # <<>> /\ block[1] \in {"<h1>", "<h2>", "<h3>"}
    THEN block
    ELSE <<"<p>">> \o block \o <<"</p>">>

\* '\n'.join(wrapped(p) for p in paragraphs if p.strip())
RECURSIVE JoinBlocks(_, _)
JoinBlocks(blocks, first) ==
    IF blocks = <<>> THEN <<>>
    ELSE IF Strip(Head(blocks)) = <<>> THEN JoinBlocks(Tail(blocks), first)
         ELSE (IF first THEN <<>> ELSE <<NL>>)
                  \o WrapBlock(Head(blocks)) \o JoinBlocks(Tail(blocks), FALSE)

\* The three substitutions for **bold**, *italic* and [label](url) match nothing
\* in a text that holds none of * [ ] ( ), which is every text of this model.
basic_markdown_to_html(text) ==
    JoinBlocks(SplitBlank(MdHeadingSub(MdHeadingSub(MdHeadingSub(text, 3, 1), 2, 1), 1, 1), 1),
               TRUE)

----------------------------------------------------------------------------
(* markdown.Markdown(extensions=['extra']).convert, the path markdown_to_html *)
(* takes when the markdown package can be imported.  The package is not part  *)
(* of the repository; this is its block parser for the constructs a text of   *)
(* this model can form: blank lines, # headers, a header underlined by        *)
(* dashes, a rule of dashes, paragraphs.  No text of the model holds a line   *)
(* indented by four blanks at the start of a block (code), two blanks ahead   *)
(* of a newline inside a paragraph (<br />), or any of * _ ` [ ] < > & \ | :  *)
(* + = and digits at the places where the package gives them a meaning.       *)

HRTag == "<hr />"

\* s.rstrip('\n') and s.lstrip('\n')
RECURSIVE RStripNL(_)
RStripNL(s) == IF s # <<>> /\ s[Len(s)] = NL THEN RStripNL(SubSeq(s, 1, Len(s) - 1)) ELSE s
RECURSIVE LStripNL(_)
LStripNL(s) == IF s # <<>> /\ Head(s) = NL THEN LStripNL(Tail(s)) ELSE s

\* the first position >= p that holds no ch, Len(s)+1 if none
RunEnd(s, p, ch) == SetMin({q \in p .. (Len(s) + 1) : q = Len(s) + 1 \/ s[q] # ch})

\* NormalizeWhitespace: re.sub(r'(?<=\n) +\n', '\n', source), scanning from p: a
\* line of blanks only, other than the first line, loses its blanks
RECURSIVE DropBlankLines(_, _)
DropBlankLines(s, p) ==
    LET hits == {q \in Max2(p, 2) .. Len(s) :
                    /\ s[q - 1] = NL
                    /\ s[q] = SP
                    /\ RunEnd(s, q, SP) <= Len(s)
                    /\ s[RunEnd(s, q, SP)] = NL}
    IN  IF hits = {} THEN SubSeq(s, p, Len(s))
        ELSE SubSeq(s, p, SetMin(hits) - 1) \o <<NL>>
                 \o DropBlankLines(s, RunEnd(s, SetMin(hits), SP) + 1)

\* HashHeaderProcessor: the leftmost match in the block of
\* (?:^|\n)(?P<level>#{1,6})(?P<header>(?:\\.|[^\\])*?)#*(?:\n|$)
\* The header is the rest of the line without the # that close it.  `before` is
\* block[:m.start()], `after` is block[m.end():].
HashHeaderMatch(block) ==
    LET starts == {p \in 1 .. Len(block) : block[p] = HASH /\ AtLineStart(block, p)}
    IN  IF starts = {}
        THEN [ok |-> FALSE, level |-> 0, header |-> <<>>, before |-> <<>>, after |-> <<>>]
        ELSE LET p == SetMin(starts)
                 level == Min2(HashRun(block, p), 6)
                 e == LineEnd(block, p + level)
                 j == SetMin({q \in (p + level) .. e :
                                 \A r \in q .. (e - 1) : block[r] = HASH})
             IN  [ok |-> TRUE,
                  level |-> level,
                  header |-> Strip(SubSeq(block, p + level, j - 1)),
                  before |-> SubSeq(block, 1, p - 2),
                  after |-> SubSeq(block, e + 1, Len(block))]

\* SetextHeaderProcessor: re.match of ^.*?\n[=-]+[ ]*(\n|$) on the block: a first
\* line, then a line of dashes.  The header is lines[0].strip(); `more` tells
\* whether len(lines) > 2 and `after` is '\n'.join(lines[2:]).
SetextMatch(block) ==
    LET e == LineEnd(block, 1)
        d == RunEnd(block, e + 1, DASH)
        b == RunEnd(block, d, SP)
    IN  IF e < Len(block) /\ d > e + 1 /\ (b > Len(block) \/ block[b] = NL)
        THEN [ok |-> TRUE, header |-> Strip(SubSeq(block, 1, e - 1)),
              more |-> b <= Len(block), after |-> SubSeq(block, b + 1, Len(block))]
        ELSE [ok |-> FALSE, header |-> <<>>, more |-> FALSE, after |-> <<>>]

\* HRProcessor: the line that starts at p matches
\* ^[ ]{0,3}(-+[ ]{0,2}){3,}[ ]*$ : at most three blanks, then dashes, at least
\* three, with at most two blanks after any of them but the last
RuleLine(block, p) ==
    LET e == LineEnd(block, p)
        a == RunEnd(block, p, SP)
        dashes == {q \in a .. (e - 1) : block[q] = DASH}
    IN  /\ AtLineStart(block, p)
        /\ a - p <= 3
        /\ a < e /\ block[a] = DASH
        /\ Cardinality(dashes) >= 3
        /\ \A q \in a .. (e - 1) : block[q] \in {DASH, SP}
        /\ \A q \in dashes : q = SetMax(dashes) \/ RunEnd(block, q + 1, SP) - q <= 3

\* HRProcessor: the first such line; `before` is block[:m.start()].rstrip('\n'),
\* `after` is block[m.end():].lstrip('\n')
HRMatch(block) ==
    LET starts == {p \in 1 .. Len(block) : RuleLine(block, p)}
    IN  IF starts = {} THEN [ok |-> FALSE, before |-> <<>>, after |-> <<>>]
        ELSE LET p == SetMin(starts)
             IN  [ok |-> TRUE,
                  before |-> RStripNL(SubSeq(block, 1, p - 1)),
                  after |-> LStripNL(SubSeq(block, LineEnd(block, p), Len(block)))]

\* BlockParser.parseBlocks: the first block goes to the first processor whose
\* test accepts it, in the order empty, hashheader, setextheader, hr, paragraph;
\* a processor hands what is ahead of its match to parseBlocks and puts what
\* follows it back at the head of the list.  The result is the list of the
\* elements, each as the serializer writes it.
RECURSIVE parseBlocks(_)
parseBlocks(blocks) ==
    IF blocks = <<>> THEN <<>>
    ELSE LET block == Head(blocks)
             rest == Tail(blocks)
             One(str) == IF str = <<>> THEN <<>> ELSE <<str>>
             h == HashHeaderMatch(block)
             u == SetextMatch(block)
             r == HRMatch(block)
         IN  IF block = <<>> THEN parseBlocks(rest)
             ELSE IF block[1] = NL THEN parseBlocks(One(Tail(block)) \o rest)
             ELSE IF h.ok
                  THEN parseBlocks(One(h.before))
                           \o << <<OpenTag(h.level)>> \o h.header \o <<CloseTag(h.level)>> >>
                           \o parseBlocks(One(h.after) \o rest)
             ELSE IF u.ok
                  THEN << <<OpenTag(2)>> \o u.header \o <<CloseTag(2)>> >>
                           \o parseBlocks((IF u.more THEN <<u.after>> ELSE <<>>) \o rest)
             ELSE IF r.ok
                  THEN parseBlocks(One(r.before)) \o << <<HRTag>> >>
                           \o parseBlocks(One(r.after) \o rest)
             ELSE IF Strip(block) # <<>>
                  THEN << <<"<p>">> \o LStrip(block) \o <<"</p>">> >> \o parseBlocks(rest)
             ELSE parseBlocks(rest)

\* the elements one per line
RECURSIVE JoinNL(_)
JoinNL(elems) ==
    IF elems = <<>> THEN <<>>
    ELSE IF Len(elems) = 1 THEN Head(elems)
         ELSE Head(elems) \o <<NL>> \o JoinNL(Tail(elems))

\* Markdown.convert: '' for a text of whitespace; else the source with two
\* newlines added goes through NormalizeWhitespace, is split at the blank
\* lines and parsed, and the output is stripped
convert(source) ==
    IF Strip(source) = <<>> THEN <<>>
    ELSE Strip(JoinNL(parseBlocks(SplitBlank(DropBlankLines(source \o <<NL, NL>>, 1), 1))))

\* markdown_to_html: `importable` tells whether the try block runs through, which
\* the environment decides (the package is installed or `import markdown`
\* raises); when it raises, the basic converter runs
markdown_to_html(text, importable) ==
    IF importable THEN convert(text) ELSE basic_markdown_to_html(text)

----------------------------------------------------------------------------
(* build_substack_email: the template, one element per line or tag *)

NoPath == "None"
CoverImage == "<img src=\"cid:cover_image\">"

TemplateHead ==
    <<"<!DOCTYPE html>\n",
      "    <html>\n",
      "    <head>\n",
      "        <meta charset=\"UTF-8\">\n",
      "        <style>\n",
      "            body {\n",
      "                font-family: -apple-system, BlinkMacSystemFont, 'Segoe UI', sans-serif;\n",
      "                line-height: 1.6;\n",
      "                color: #333;\n",
      "                max-width: 680px;\n",
      "                margin: 0 auto;\n",
      "                padding: 20px;\n",
      "            }\n",
      "            h1 { font-size: 2em; margin-bottom: 0.5em; }\n",
      "            h2 { font-size: 1.5em; margin-top: 1.5em; }\n",
      "            img { max-width: 100%; height: auto; }\n",
      "        </style>\n",
      "    </head>\n",
      "    <body>\n",
      "        ",
      "<h1>">>

build_substack_email(ttl, html_content, image) ==
    TemplateHead \o ttl \o <<"</h1>", "\n        ">>
        \o (IF image # NoPath THEN <<CoverImage>> ELSE <<>>)
        \o <<"\n        ">> \o html_content \o <<"\n    </body>\n    </html>">>

----------------------------------------------------------------------------
(* normalize_for_platforms: summary and hashtags *)

SummaryLimit == 280
ThreadLimit == 300

\* str.lower() for the letters of the model
Lower(str) == [i \in 1 .. Len(str) |->
                  IF str[i] = "T" THEN "t" ELSE IF str[i] = "I" THEN "i" ELSE str[i]]

\* needle in hay
Contains(hay, needle) ==
    \E i \in 0 .. (Len(hay) - Len(needle)) : SubSeq(hay, i + 1, i + Len(needle)) = needle

\* lines 40-48
Summary(ttl, hint, body) ==
    LET first == IF hint # <<>> THEN hint
                 ELSE truncate_text(extract_first_paragraph(body), SummaryLimit)
    IN  IF ~Contains(Lower(first), Lower(ttl))
        THEN truncate_text(ttl \o <<NL, NL>> \o first, SummaryLimit)
        ELSE first

\* s.replace(' ', '')
RECURSIVE DropBlanks(_)
DropBlanks(str) ==
    IF str = <<>> THEN <<>>
    ELSE IF Head(str) = SP THEN DropBlanks(Tail(str))
         ELSE <<Head(str)>> \o DropBlanks(Tail(str))

\* [f"#{tag.strip().replace(' ', '')}" for tag in tags]
Hashtags(tagList) ==
    [i \in 1 .. Len(tagList) |-> <<HASH>> \o DropBlanks(Strip(tagList[i]))]

----------------------------------------------------------------------------
(* ATProtoPublisher: values *)

Platforms == {"Bluesky", "Flashes", "Skylight", "Pinksky"}

\* results = {}
EmptyDict == [name \in {} |-> TRUE]

\* None, for a reference and for reply_to
NoRef == 0
NoReply == [parent |-> NoRef, root |-> NoRef]

\* ' '.join(hashtags)
RECURSIVE JoinBlank(_)
JoinBlank(words) ==
    IF words = <<>> THEN <<>>
    ELSE IF Len(words) = 1 THEN words[1]
         ELSE words[1] \o <<SP>> \o JoinBlank(Tail(words))

\* the length a post may have
PostLimit == 300

\* the hashtags are joined to the first chunk without the blank line counted
WithHashtagsGapUncounted(thread, tagList) ==
    IF tagList # <<>> /\ thread # <<>>
           /\ Len(thread[1]) + Len(JoinBlank(tagList)) <= PostLimit
    THEN [thread EXCEPT ![1] = thread[1] \o <<NL, NL>> \o JoinBlank(tagList)]
    ELSE thread

\* lines 75-83: the thread as posted, the hashtags added to its first chunk when
\* the two fit a post
WithHashtags(thread, tagList) ==
    IF tagList # <<>> /\ thread # <<>>
           /\ Len(thread[1]) + Len(JoinBlank(tagList)) + 2 <= PostLimit
    THEN [thread EXCEPT ![1] = thread[1] \o <<NL, NL>> \o JoinBlank(tagList)]
    ELSE thread

\* tag.lstrip('#')
RECURSIVE LStripHash(_)
LStripHash(tag) == IF tag # <<>> /\ Head(tag) = HASH THEN LStripHash(Tail(tag)) ELSE tag

\* text.find(needle)
Find(text, needle) ==
    LET hits == {i \in 0 .. (Len(text) - Len(needle)) :
                    SubSeq(text, i + 1, i + Len(needle)) = needle}
    IN  IF hits = {} THEN -1 ELSE SetMin(hits)

\* len(c.encode('utf-8')): the two lead glyphs take three bytes, the rest one
Utf8Width(c) == IF c \in {TRI, BUL} THEN 3 ELSE 1

\* len(text[:k].encode('utf-8')): the sum of the widths of the first k characters
Utf8Len(text, k) ==
    Cardinality({<<i, b>> \in (1 .. k) \X (1 .. 3) : b <= Utf8Width(text[i])})

\* create_hashtag_facets(text, hashtags); None is the empty list
RECURSIVE create_hashtag_facets(_, _)
create_hashtag_facets(text, tagList) ==
    IF tagList = <<>> THEN <<>>
    ELSE LET clean_tag == LStripHash(Head(tagList))
             search_tag == <<HASH>> \o clean_tag
             start_pos == Find(text, search_tag)
             rest == create_hashtag_facets(text, Tail(tagList))
         IN  IF start_pos # -1
             THEN <<[tag |-> clean_tag,
                     byteStart |-> Utf8Len(text, start_pos),
                     byteEnd |-> Utf8Len(text, start_pos + Len(search_tag))]>> \o rest
             ELSE rest

----------------------------------------------------------------------------
(* Inputs *)

MaxBodyLen == 4
MaxLimit == 16
MaxFill == 7
MaxWords == 9
MaxPostBodyLen == 3
Slack == 2
MaxTextLen == 5
MaxTruncLimit == 7

BodyChars == {"a", SP, NL, DOT, HASH}
PostChars == {"a", SP, NL, HASH}
TextChars == {"a", SP}

StrUpTo(A, n) == UNION {[1 .. k -> A] : k \in 0 .. n}

\* str * n
Rep(str, n) == [i \in 1 .. (n * Len(str)) |-> str[((i - 1) % Len(str)) + 1]]

\* start, filled with the letter a up to length n
Stretch(start, n) == start \o Rep(<<"a">>, n - Len(start))

\* n paragraphs of six letters, then one of two words five blanks apart, then a letter
FillBody(n) ==
    Rep(<<"a", "a", "a", "a", "a", "a", NL, NL>>, n)
        \o <<"a", SP, SP, SP, SP, SP, "a", NL, NL, "a">>

\* n one-letter words on one line
WordsBody(n) == <<"a">> \o Rep(<<SP, "a">>, n - 1)

Bodies ==
    StrUpTo(BodyChars, MaxBodyLen)
        \cup {FillBody(n) : n \in 1 .. MaxFill}
        \cup {WordsBody(n) : n \in 2 .. MaxWords}

Titles == {<<"T">>, <<"T", "i", SP, "t", "l">>}

Limits == 0 .. MaxLimit

\* documents as parse_markdown_post hands them on
PostBodies ==
    StrUpTo(PostChars, MaxPostBodyLen)
        \cup { \* a first paragraph of three-letter words, longer than the summary
               Rep(<<"a", "a", "a", SP>>, SummaryLimit \div 4 + 2) \o <<"a", NL, NL, "a">>,
               \* a first paragraph of one word, longer than the summary
               Rep(<<"a">>, SummaryLimit + 1),
               \* headings of the three levels, then text
               <<HASH, SP, "a", NL, NL, HASH, HASH, SP, "a", NL, NL,
                 HASH, HASH, HASH, SP, "a", NL, NL, "a", DOT>>,
               \* a delimited block ahead of the text
               <<DASH, DASH, DASH, NL, "a", NL, DASH, DASH, DASH, NL, NL, "a", "a">>,
               \* nine paragraphs that fill a post each
               Rep(Rep(<<"a">>, ThreadLimit - 12) \o <<NL, NL>>, 8)
                   \o Rep(<<"a">>, ThreadLimit - 12) }

PostTitles == {<<"T">>, Rep(<<"T", "i", SP>>, SummaryLimit \div 3 + 1)}

Shorts ==
    {<<>>, <<"a">>}
        \cup {Stretch(st, SummaryLimit + d) :
                 st \in {<<"t", SP>>, <<"a", SP>>}, d \in (0 - Slack) .. Slack}

TagLists == {<<>>, << <<SP, "a", SP, "b">>, <<"c">> >>}

Images == {NoPath, "cover.png"}

MaxThread == 3
MaxDocBodyLen == 3

\* the texts of the chunks handed to the publisher: two that the hashtags of
\* TagSets just fit beside or just do not, a short one, one with a lead glyph,
\* one too long for a post
ChunkTexts ==
    {<<"a">>, <<TRI, SP, "b">>,
     Rep(<<"a">>, PostLimit - 8), Rep(<<"a">>, PostLimit - 7),
     Rep(<<"a">>, PostLimit + 1)}

Threads == UNION {[1 .. n -> ChunkTexts] : n \in 0 .. MaxThread}

TagSets == {<<>>, << <<HASH, "a", "b">>, <<HASH, "c">> >>}

\* the lines a frontmatter block may hold, <<>> for a line that is not there
TitleLines == {<<>>, <<TitleKey>>, <<TitleKey, SP, "M", "y">>}
ShortLines == {<<>>, <<ShortKey, SP, "a">>}
TagLines == {<<>>, <<TagsKey, SP, "a", COMMA, SP, "b">>}

LineNL(line) == IF line = <<>> THEN <<>> ELSE line \o <<NL>>

Fence == <<DASH, DASH, DASH, NL>>

\* no frontmatter; a block that is opened and closed; a block that is opened
\* and never closed
Fronts ==
    {<<>>} \cup
    {Fence \o LineNL(t) \o LineNL(sh) \o LineNL(tg) \o closing :
        t \in TitleLines, sh \in ShortLines, tg \in TagLines,
        closing \in {<<>>, Fence}}

\* the files parse_markdown_post reads
Docs == {front \o text : front \in Fronts, text \in StrUpTo(PostChars, MaxDocBodyLen)}

----------------------------------------------------------------------------
(* create_thread_chunks as a state machine; `built` keeps the list as the last *)
(* chunk_content call returned it, and `passes` counts the runs of the while    *)
(* loop's body.                                                                 *)

TruncIdle ==
    /\ t_text = <<>>
    /\ t_max = 0
    /\ t_out = <<>>
    /\ t_again = <<>>
    /\ t_pc = "idle"

ThreadIdle ==
    /\ pc = "idle"
    /\ chunks = <<>>
    /\ built = <<>>
    /\ total = 0
    /\ suffix_length = 0
    /\ new_suffix_length = 0
    /\ iteration_count = 0
    /\ passes = 0

NormIdle ==
    /\ short = <<>>
    /\ tags = <<>>
    /\ html = <<>>
    /\ image_path = NoPath
    /\ norm_pc = "idle"
    /\ summary = <<>>
    /\ hashtags = <<>>
    /\ email_html = <<>>

ParseIdle ==
    /\ doc = <<>>
    /\ metadata = NoMetadata
    /\ p_body = <<>>
    /\ parse_pc = "idle"

PubIdle ==
    /\ p_thread = <<>>
    /\ p_hashtags = <<>>
    /\ p_image = NoPath
    /\ pub_pc = "idle"
    /\ idx = 0
    /\ uploaded = FALSE
    /\ root_ref = NoRef
    /\ parent_ref = NoRef
    /\ posts = <<>>
    /\ backend = <<>>
    /\ results = EmptyDict
    /\ raised = FALSE
    /\ cli_success = <<>>
    /\ cli_failed = <<>>
    /\ entry = "none"
    /\ in_thread = <<>>
    /\ creds = EmptyDict

\* chunks = chunk_content(max_length - initial_reserved); total = len(chunks)
InitialChunking ==
    /\ pc = "start"
    /\ built' = chunk_content(content, title, max_length - initial_reserved)
    /\ chunks' = built'
    /\ total' = Len(built')
    /\ pc' = IF total' > 1 THEN "suffix" ELSE "done"
    /\ UNCHANGED <<content, title, max_length, suffix_length, new_suffix_length,
                   iteration_count, passes>>
    /\ UNCHANGED <<truncVars, normVars, pubVars, parseVars>>

\* suffix_length = ...; if suffix_length != initial_reserved: re-chunk, recount
CorrectSuffix ==
    /\ pc = "suffix"
    /\ suffix_length' = SuffixLength(total)
    /\ IF suffix_length' # initial_reserved
       THEN /\ built' = chunk_content(content, title, max_length - suffix_length')
            /\ chunks' = built'
            /\ total' = Len(built')
            /\ new_suffix_length' = SuffixLength(total')
            /\ iteration_count' = 0
            /\ pc' = "loop"
       ELSE /\ UNCHANGED <<chunks, built, total, new_suffix_length, iteration_count>>
            /\ pc' = "mark"
    /\ UNCHANGED <<content, title, max_length, passes>>
    /\ UNCHANGED <<truncVars, normVars, pubVars, parseVars>>

\* while new_suffix_length != suffix_length and iteration_count < 5
LoopGuardNoCap(nsl, sl, ic) == nsl # sl

LoopGuardInverted(nsl, sl, ic) == nsl = sl /\ ic < LoopCap

LoopGuard(nsl, sl, ic) == nsl # sl /\ ic < LoopCap

\* one run of the loop's body
LoopIteration ==
    /\ pc = "loop"
    /\ LoopGuard(new_suffix_length, suffix_length, iteration_count)
    /\ suffix_length' = new_suffix_length
    /\ built' = chunk_content(content, title, max_length - suffix_length')
    /\ chunks' = built'
    /\ total' = Len(built')
    /\ new_suffix_length' = SuffixLength(total')
    /\ iteration_count' = iteration_count + 1
    /\ passes' = passes + 1
    /\ UNCHANGED <<content, title, max_length, pc>>
    /\ UNCHANGED <<truncVars, normVars, pubVars, parseVars>>

\* the while condition is false
LoopExit ==
    /\ pc = "loop"
    /\ ~LoopGuard(new_suffix_length, suffix_length, iteration_count)
    /\ pc' = "mark"
    /\ UNCHANGED <<content, title, max_length, chunks, built, total, suffix_length,
                   new_suffix_length, iteration_count, passes>>
    /\ UNCHANGED <<truncVars, normVars, pubVars, parseVars>>

\* the two list comprehensions after the if, and the return
ApplyMarkers ==
    /\ pc = "mark"
    /\ chunks' = SafetyNet(AppendMarkers(chunks, total), max_length)
    /\ pc' = "done"
    /\ UNCHANGED <<content, title, max_length, built, total, suffix_length,
                   new_suffix_length, iteration_count, passes>>
    /\ UNCHANGED <<truncVars, normVars, pubVars, parseVars>>

Init ==
    /\ content \in Bodies
    /\ title \in Titles
    /\ max_length \in Limits
    /\ pc = "start"
    /\ chunks = <<>>
    /\ built = <<>>
    /\ total = 0
    /\ suffix_length = 0
    /\ new_suffix_length = 0
    /\ iteration_count = 0
    /\ passes = 0
    /\ TruncIdle
    /\ NormIdle
    /\ PubIdle
    /\ ParseIdle

Next ==
    \/ InitialChunking
    \/ CorrectSuffix
    \/ LoopIteration
    \/ LoopExit
    \/ ApplyMarkers

Spec == Init /\ [][Next]_vars

----------------------------------------------------------------------------
(* truncate_text on its own, and on its own result *)

TruncInit ==
    /\ t_text \in StrUpTo(TextChars, MaxTextLen)
    /\ t_max \in 0 .. MaxTruncLimit
    /\ t_out = <<>>
    /\ t_again = <<>>
    /\ t_pc = "start"
    /\ content = <<>>
    /\ title = <<>>
    /\ max_length = 0
    /\ ThreadIdle
    /\ NormIdle
    /\ PubIdle
    /\ ParseIdle

TruncateOnce ==
    /\ t_pc = "start"
    /\ t_out' = truncate_text(t_text, t_max)
    /\ t_pc' = "once"
    /\ UNCHANGED <<t_text, t_max, t_again>>
    /\ UNCHANGED <<threadVars, normVars, pubVars, parseVars>>

TruncateAgain ==
    /\ t_pc = "once"
    /\ t_again' = truncate_text(t_out, t_max)
    /\ t_pc' = "twice"
    /\ UNCHANGED <<t_text, t_max, t_out>>
    /\ UNCHANGED <<threadVars, normVars, pubVars, parseVars>>

TruncNext ==
    \/ TruncateOnce
    \/ TruncateAgain

SpecTruncate == TruncInit /\ [][TruncNext]_vars

----------------------------------------------------------------------------
(* normalize_for_platforms *)

\* post_data as parse_markdown_post builds it from a body: 'content' is
\* body.strip() and 'html' is markdown_to_html(body)
NormInit ==
    /\ \E body \in PostBodies, importable \in BOOLEAN :
          /\ content = Strip(body)
          /\ html = markdown_to_html(body, importable)
    /\ title \in PostTitles
    /\ short \in Shorts
    /\ tags \in TagLists
    /\ image_path \in Images
    /\ norm_pc = "start"
    /\ summary = <<>>
    /\ hashtags = <<>>
    /\ email_html = <<>>
    /\ max_length = 0
    /\ ThreadIdle
    /\ TruncIdle
    /\ PubIdle
    /\ ParseIdle

\* thread_chunks = create_thread_chunks(content, title, max_length=300): the call
NormalizeCall ==
    /\ norm_pc = "start"
    /\ pc = "idle"
    /\ max_length' = ThreadLimit
    /\ pc' = "start"
    /\ norm_pc' = "thread"
    /\ UNCHANGED <<content, title, chunks, built, total, suffix_length,
                   new_suffix_length, iteration_count, passes>>
    /\ UNCHANGED <<short, tags, html, image_path, summary, hashtags, email_html>>
    /\ UNCHANGED <<truncVars, pubVars, parseVars>>

\* the rest of normalize_for_platforms, once create_thread_chunks has returned
NormalizeRest ==
    /\ norm_pc = "thread"
    /\ pc = "done"
    /\ summary' = Summary(title, short, content)
    /\ hashtags' = Hashtags(tags)
    /\ email_html' = build_substack_email(title, html, image_path)
    /\ norm_pc' = "done"
    /\ UNCHANGED <<short, tags, html, image_path>>
    /\ UNCHANGED <<truncVars, threadVars, pubVars, parseVars>>

NormNext ==
    \/ NormalizeCall
    \/ InitialChunking
    \/ CorrectSuffix
    \/ LoopIteration
    \/ LoopExit
    \/ ApplyMarkers
    \/ NormalizeRest

SpecNormalize == NormInit /\ [][NormNext]_vars

----------------------------------------------------------------------------
(* The publish command from `results = {'success': [], 'failed': []}` on: the  *)
(* AT-Protocol block, which calls ATProtoPublisher.publish, then the Substack  *)
(* block.  A call to the backend (login, upload_blob, send_post) either        *)
(* returns or raises.  A post the backend creates is known by its place in the *)
(* backend's log.                                                              *)

\* what load_credentials may return: any of the two sections, each complete
\* (TRUE) or lacking a key its publisher's __init__ reads (FALSE)
CredSets == UNION {[S -> BOOLEAN] : S \in SUBSET {"atproto", "substack"}}

PubInit ==
    /\ entry = "publish"
    /\ creds \in CredSets
    /\ in_thread \in Threads
    /\ p_thread = in_thread
    /\ p_hashtags \in TagSets
    /\ p_image \in Images
    /\ pub_pc = "command"
    /\ idx = 0
    /\ uploaded = FALSE
    /\ root_ref = NoRef
    /\ parent_ref = NoRef
    /\ posts = <<>>
    /\ backend = <<>>
    /\ results = EmptyDict
    /\ raised = FALSE
    /\ cli_success = <<>>
    /\ cli_failed = <<>>
    /\ content = <<>>
    /\ title = <<>>
    /\ max_length = 0
    /\ ThreadIdle
    /\ TruncIdle
    /\ NormIdle
    /\ ParseIdle

AllFlags(flag) == [name \in Platforms |-> flag]

\* cli.publish: 'atproto' in creds; the publisher is built and publish is called
AtprotoCalled ==
    /\ entry = "publish"
    /\ pub_pc = "command"
    /\ "atproto" \in DOMAIN creds /\ creds["atproto"]
    /\ pub_pc' = "start"
    /\ UNCHANGED <<p_thread, p_hashtags, p_image, idx, uploaded, root_ref, parent_ref,
                   posts, backend, results, raised, cli_success, cli_failed>>
    /\ UNCHANGED <<truncVars, threadVars, normVars, callVars, parseVars>>

\* cli.publish: ATProtoPublisher.__init__ raises KeyError for a section that
\* lacks a key, and except Exception records the failure
AtprotoRaises ==
    /\ entry = "publish"
    /\ pub_pc = "command"
    /\ "atproto" \in DOMAIN creds /\ ~creds["atproto"]
    /\ cli_failed' = cli_failed \o <<"Bluesky", "Flashes", "Pinksky">>
    /\ pub_pc' = "reported"
    /\ UNCHANGED <<p_thread, p_hashtags, p_image, idx, uploaded, root_ref, parent_ref,
                   posts, backend, results, raised, cli_success>>
    /\ UNCHANGED <<truncVars, threadVars, normVars, callVars, parseVars>>

\* cli.publish: no 'atproto' in creds; the block is passed over
AtprotoSkipped ==
    /\ entry = "publish"
    /\ pub_pc = "command"
    /\ "atproto" \notin DOMAIN creds
    /\ pub_pc' = "reported"
    /\ UNCHANGED <<p_thread, p_hashtags, p_image, idx, uploaded, root_ref, parent_ref,
                   posts, backend, results, raised, cli_success, cli_failed>>
    /\ UNCHANGED <<truncVars, threadVars, normVars, callVars, parseVars>>

\* self.authenticate() returns; then lines 72-83
AuthenticateOk ==
    /\ pub_pc = "start"
    /\ p_thread' = WithHashtags(p_thread, p_hashtags)
    /\ pub_pc' = "loop"
    /\ UNCHANGED <<p_hashtags, p_image, idx, uploaded, root_ref, parent_ref, posts,
                   backend, results, raised, cli_success, cli_failed>>
    /\ UNCHANGED <<truncVars, threadVars, normVars, callVars, parseVars>>

\* self.authenticate() raises: the call stands before the try
AuthenticateRaises ==
    /\ pub_pc = "start"
    /\ raised' = TRUE
    /\ pub_pc' = "raised"
    /\ UNCHANGED <<p_thread, p_hashtags, p_image, idx, uploaded, root_ref, parent_ref,
                   posts, backend, results, cli_success, cli_failed>>
    /\ UNCHANGED <<truncVars, threadVars, normVars, callVars, parseVars>>

\* an exception inside the try: the except branch, and return results
Caught ==
    /\ results' = AllFlags(FALSE)
    /\ pub_pc' = "returned"

\* an exception outside any try: it leaves the method that was called
Propagates ==
    /\ raised' = TRUE
    /\ pub_pc' = "raised"

\* an exception in post_thread_with_hashtags: publish catches it, post_thread
\* has no handler
Raise ==
    IF entry = "publish" THEN Caught /\ UNCHANGED raised
    ELSE Propagates /\ UNCHANGED results

\* i == 0 and image_path: open, read and upload_blob return
UploadOk ==
    /\ pub_pc = "loop"
    /\ idx = 0 /\ Len(p_thread) > 0
    /\ p_image # NoPath /\ ~uploaded
    /\ uploaded' = TRUE
    /\ UNCHANGED <<p_thread, p_hashtags, p_image, pub_pc, idx, root_ref, parent_ref,
                   posts, backend, results, raised, cli_success, cli_failed>>
    /\ UNCHANGED <<truncVars, threadVars, normVars, callVars, parseVars>>

\* i == 0 and image_path: open, read or upload_blob raises
UploadRaises ==
    /\ pub_pc = "loop"
    /\ idx = 0 /\ Len(p_thread) > 0
    /\ p_image # NoPath /\ ~uploaded
    /\ Raise
    /\ UNCHANGED <<p_thread, p_hashtags, p_image, idx, uploaded, root_ref, parent_ref,
                   posts, backend, cli_success, cli_failed>>
    /\ UNCHANGED <<truncVars, threadVars, normVars, callVars, parseVars>>

\* the arguments of the send_post call for chunk i (0-based)
SendRequest(thread, i, tagList, hasEmbed, parent, root) ==
    [text |-> thread[i + 1],
     embed |-> (i = 0 /\ hasEmbed),
     facets |-> IF tagList # <<>> /\ i = 0
                THEN create_hashtag_facets(thread[i + 1], tagList) ELSE <<>>,
     reply |-> IF i = 0 THEN NoReply ELSE [parent |-> parent, root |-> root]]

\* self.client.send_post(...) is called for chunk idx
SendCall ==
    /\ pub_pc = "loop"
    /\ idx < Len(p_thread)
    /\ idx = 0 => (p_image = NoPath \/ uploaded)
    /\ backend' = Append(backend, SendRequest(p_thread, idx, p_hashtags, uploaded,
                                              parent_ref, root_ref))
    /\ pub_pc' = "sending"
    /\ UNCHANGED <<p_thread, p_hashtags, p_image, idx, uploaded, root_ref, parent_ref,
                   posts, results, raised, cli_success, cli_failed>>
    /\ UNCHANGED <<truncVars, threadVars, normVars, callVars, parseVars>>

\* parent_ref = models.create_strong_ref(post)
NextParentStale(old, post) == old

NextParent(old, post) == post

\* send_post returns the post made; the references, posts.append(post), and on
\* to the next chunk (the sleep between posts takes time only)
SendReturns ==
    /\ pub_pc = "sending"
    /\ LET post == Len(backend)
       IN  /\ root_ref' = IF idx = 0 THEN post ELSE root_ref
           /\ parent_ref' = IF idx = 0 THEN post ELSE NextParent(parent_ref, post)
           /\ posts' = Append(posts, post)
    /\ idx' = idx + 1
    /\ pub_pc' = "loop"
    /\ UNCHANGED <<p_thread, p_hashtags, p_image, uploaded, backend, results, raised,
                   cli_success, cli_failed>>
    /\ UNCHANGED <<truncVars, threadVars, normVars, callVars, parseVars>>

\* send_post raises
SendRaises ==
    /\ pub_pc = "sending"
    /\ Raise
    /\ UNCHANGED <<p_thread, p_hashtags, p_image, idx, uploaded, root_ref, parent_ref,
                   posts, backend, cli_success, cli_failed>>
    /\ UNCHANGED <<truncVars, threadVars, normVars, callVars, parseVars>>

\* the for loop is over: lines 87-90, and return results
ThreadPosted ==
    /\ entry = "publish"
    /\ pub_pc = "loop"
    /\ idx = Len(p_thread)
    /\ results' = AllFlags(TRUE)
    /\ pub_pc' = "returned"
    /\ UNCHANGED <<p_thread, p_hashtags, p_image, idx, uploaded, root_ref, parent_ref,
                   posts, backend, raised, cli_success, cli_failed>>
    /\ UNCHANGED <<truncVars, threadVars, normVars, callVars, parseVars>>

\* the order in which publish fills results, which is the order .items() gives
FlagOrder == <<"Bluesky", "Flashes", "Skylight", "Pinksky">>

RECURSIVE NamesWith(_, _, _)
NamesWith(names, flags, flag) ==
    IF names = <<>> THEN <<>>
    ELSE (IF flags[Head(names)] = flag THEN <<Head(names)>> ELSE <<>>)
             \o NamesWith(Tail(names), flags, flag)

\* cli.publish: for platform, success in at_results.items(); "reported" is the
\* end of the AT-Protocol block
CliCollects ==
    /\ entry = "publish"
    /\ pub_pc = "returned"
    /\ cli_success' = cli_success \o NamesWith(FlagOrder, results, TRUE)
    /\ cli_failed' = cli_failed \o NamesWith(FlagOrder, results, FALSE)
    /\ pub_pc' = "reported"
    /\ UNCHANGED <<p_thread, p_hashtags, p_image, idx, uploaded, root_ref, parent_ref,
                   posts, backend, results, raised>>
    /\ UNCHANGED <<truncVars, threadVars, normVars, callVars, parseVars>>

\* cli.publish: except Exception, for an exception that left publish
CliCatches ==
    /\ entry = "publish"
    /\ pub_pc = "raised"
    /\ cli_failed' = cli_failed \o <<"Bluesky", "Flashes", "Pinksky">>
    /\ pub_pc' = "reported"
    /\ UNCHANGED <<p_thread, p_hashtags, p_image, idx, uploaded, root_ref, parent_ref,
                   posts, backend, results, raised, cli_success>>
    /\ UNCHANGED <<truncVars, threadVars, normVars, callVars, parseVars>>

\* cli.publish: no 'substack' in creds; the block is passed over
SubstackSkipped ==
    /\ entry = "publish"
    /\ pub_pc = "reported"
    /\ "substack" \notin DOMAIN creds
    /\ pub_pc' = "finished"
    /\ UNCHANGED <<p_thread, p_hashtags, p_image, idx, uploaded, root_ref, parent_ref,
                   posts, backend, results, raised, cli_success, cli_failed>>
    /\ UNCHANGED <<truncVars, threadVars, normVars, callVars, parseVars>>

\* cli.publish: SubstackPublisher.publish sends the mail and returns True
SubstackPublished ==
    /\ entry = "publish"
    /\ pub_pc = "reported"
    /\ "substack" \in DOMAIN creds /\ creds["substack"]
    /\ cli_success' = Append(cli_success, "Substack")
    /\ pub_pc' = "finished"
    /\ UNCHANGED <<p_thread, p_hashtags, p_image, idx, uploaded, root_ref, parent_ref,
                   posts, backend, results, raised, cli_failed>>
    /\ UNCHANGED <<truncVars, threadVars, normVars, callVars, parseVars>>

\* cli.publish: building the mail or the SMTP session raises, which
\* SubstackPublisher.publish catches and returns False for
SubstackRefused ==
    /\ entry = "publish"
    /\ pub_pc = "reported"
    /\ "substack" \in DOMAIN creds /\ creds["substack"]
    /\ cli_failed' = Append(cli_failed, "Substack")
    /\ pub_pc' = "finished"
    /\ UNCHANGED <<p_thread, p_hashtags, p_image, idx, uploaded, root_ref, parent_ref,
                   posts, backend, results, raised, cli_success>>
    /\ UNCHANGED <<truncVars, threadVars, normVars, callVars, parseVars>>

\* cli.publish: SubstackPublisher.__init__ raises KeyError for a section that
\* lacks a key, and except Exception records the failure
SubstackRaises ==
    /\ entry = "publish"
    /\ pub_pc = "reported"
    /\ "substack" \in DOMAIN creds /\ ~creds["substack"]
    /\ cli_failed' = Append(cli_failed, "Substack")
    /\ pub_pc' = "finished"
    /\ UNCHANGED <<p_thread, p_hashtags, p_image, idx, uploaded, root_ref, parent_ref,
                   posts, backend, results, raised, cli_success>>
    /\ UNCHANGED <<truncVars, threadVars, normVars, callVars, parseVars>>

PubNext ==
    \/ AtprotoCalled
    \/ AtprotoRaises
    \/ AtprotoSkipped
    \/ AuthenticateOk
    \/ AuthenticateRaises
    \/ UploadOk
    \/ UploadRaises
    \/ SendCall
    \/ SendReturns
    \/ SendRaises
    \/ ThreadPosted
    \/ CliCollects
    \/ CliCatches
    \/ SubstackSkipped
    \/ SubstackPublished
    \/ SubstackRefused
    \/ SubstackRaises

SpecPublish == PubInit /\ [][PubNext]_vars

----------------------------------------------------------------------------
(* ATProtoPublisher.post_thread(chunks, image_path), called on a publisher     *)
(* that is logged in: its own loop over the chunks, then the call of           *)
(* post_thread_with_hashtags(chunks, image_path, hashtags=None) it returns     *)

PostThreadInit ==
    /\ entry = "post_thread"
    /\ creds = EmptyDict
    /\ in_thread \in Threads
    /\ p_thread = in_thread
    /\ p_hashtags = <<>>
    /\ p_image \in Images
    /\ pub_pc = "own_loop"
    /\ idx = 0
    /\ uploaded = FALSE
    /\ root_ref = NoRef
    /\ parent_ref = NoRef
    /\ posts = <<>>
    /\ backend = <<>>
    /\ results = EmptyDict
    /\ raised = FALSE
    /\ cli_success = <<>>
    /\ cli_failed = <<>>
    /\ content = <<>>
    /\ title = <<>>
    /\ max_length = 0
    /\ ThreadIdle
    /\ TruncIdle
    /\ NormIdle
    /\ ParseIdle

\* post_thread, i == 0 and image_path: open, read and upload_blob return
OwnUploadOk ==
    /\ pub_pc = "own_loop"
    /\ idx = 0 /\ Len(p_thread) > 0
    /\ p_image # NoPath /\ ~uploaded
    /\ uploaded' = TRUE
    /\ UNCHANGED <<p_thread, p_hashtags, p_image, pub_pc, idx, root_ref, parent_ref,
                   posts, backend, results, raised, cli_success, cli_failed>>
    /\ UNCHANGED <<truncVars, threadVars, normVars, callVars, parseVars>>

\* post_thread, i == 0 and image_path: open, read or upload_blob raises
OwnUploadRaises ==
    /\ pub_pc = "own_loop"
    /\ idx = 0 /\ Len(p_thread) > 0
    /\ p_image # NoPath /\ ~uploaded
    /\ Propagates
    /\ UNCHANGED <<p_thread, p_hashtags, p_image, idx, uploaded, root_ref, parent_ref,
                   posts, backend, results, cli_success, cli_failed>>
    /\ UNCHANGED <<truncVars, threadVars, normVars, callVars, parseVars>>

\* post_thread: self.client.send_post(...) is called for chunk idx
OwnSendCall ==
    /\ pub_pc = "own_loop"
    /\ idx < Len(p_thread)
    /\ idx = 0 => (p_image = NoPath \/ uploaded)
    /\ backend' = Append(backend, SendRequest(p_thread, idx, <<>>, uploaded,
                                              parent_ref, root_ref))
    /\ pub_pc' = "own_sending"
    /\ UNCHANGED <<p_thread, p_hashtags, p_image, idx, uploaded, root_ref, parent_ref,
                   posts, results, raised, cli_success, cli_failed>>
    /\ UNCHANGED <<truncVars, threadVars, normVars, callVars, parseVars>>

\* post_thread: send_post returns the post made
OwnSendReturns ==
    /\ pub_pc = "own_sending"
    /\ LET post == Len(backend)
       IN  /\ root_ref' = IF idx = 0 THEN post ELSE root_ref
           /\ parent_ref' = post
           /\ posts' = Append(posts, post)
    /\ idx' = idx + 1
    /\ pub_pc' = "own_loop"
    /\ UNCHANGED <<p_thread, p_hashtags, p_image, uploaded, backend, results, raised,
                   cli_success, cli_failed>>
    /\ UNCHANGED <<truncVars, threadVars, normVars, callVars, parseVars>>

\* post_thread: send_post raises
OwnSendRaises ==
    /\ pub_pc = "own_sending"
    /\ Propagates
    /\ UNCHANGED <<p_thread, p_hashtags, p_image, idx, uploaded, root_ref, parent_ref,
                   posts, backend, results, cli_success, cli_failed>>
    /\ UNCHANGED <<truncVars, threadVars, normVars, callVars, parseVars>>

\* post_thread's loop is over: return self.post_thread_with_hashtags(chunks,
\* image_path, hashtags=None), which starts with no posts and no references
Delegates ==
    /\ pub_pc = "own_loop"
    /\ idx = Len(p_thread)
    /\ idx' = 0
    /\ uploaded' = FALSE
    /\ root_ref' = NoRef
    /\ parent_ref' = NoRef
    /\ posts' = <<>>
    /\ pub_pc' = "loop"
    /\ UNCHANGED <<p_thread, p_hashtags, p_image, backend, results, raised,
                   cli_success, cli_failed>>
    /\ UNCHANGED <<truncVars, threadVars, normVars, callVars, parseVars>>

\* post_thread_with_hashtags returns posts, and post_thread returns them
ThreadReturned ==
    /\ entry = "post_thread"
    /\ pub_pc = "loop"
    /\ idx = Len(p_thread)
    /\ pub_pc' = "returned"
    /\ UNCHANGED <<p_thread, p_hashtags, p_image, idx, uploaded, root_ref, parent_ref,
                   posts, backend, results, raised, cli_success, cli_failed>>
    /\ UNCHANGED <<truncVars, threadVars, normVars, callVars, parseVars>>

PostThreadNext ==
    \/ OwnUploadOk
    \/ OwnUploadRaises
    \/ OwnSendCall
    \/ OwnSendReturns
    \/ OwnSendRaises
    \/ Delegates
    \/ UploadOk
    \/ UploadRaises
    \/ SendCall
    \/ SendReturns
    \/ SendRaises
    \/ ThreadReturned

SpecPostThread == PostThreadInit /\ [][PostThreadNext]_vars

----------------------------------------------------------------------------
(* parse_markdown_post(file_path), from the text of the file on *)

ParseInit ==
    /\ doc \in Docs
    /\ metadata = NoMetadata
    /\ p_body = <<>>
    /\ parse_pc = "start"
    /\ content = <<>>
    /\ title = <<>>
    /\ max_length = 0
    /\ ThreadIdle
    /\ TruncIdle
    /\ NormIdle
    /\ PubIdle

\* lines 31-39: with a frontmatter block, its text goes through yaml and the
\* body is what follows it; without one, the whole text is the body
ReadFrontmatter ==
    /\ parse_pc = "start"
    /\ LET m == FrontmatterMatch(doc)
       IN  IF m.e # 0
           THEN /\ metadata' = YamlLoad(SubSeq(doc, m.a, m.b - 1))
                /\ p_body' = SubSeq(doc, m.e, Len(doc))
           ELSE /\ metadata' = NoMetadata
                /\ p_body' = doc
    /\ parse_pc' = "title"
    /\ UNCHANGED doc
    /\ UNCHANGED <<truncVars, threadVars, normVars, pubVars>>

\* lines 41-47: the title of the metadata, else of the first heading, else the
\* default
DeriveTitle ==
    /\ parse_pc = "title"
    /\ title' = IF metadata.title # <<>> THEN metadata.title ELSE HeadingTitle(p_body)
    /\ parse_pc' = "rest"
    /\ UNCHANGED <<doc, metadata, p_body>>
    /\ UNCHANGED <<content, max_length, pc, chunks, total, suffix_length,
                   new_suffix_length, iteration_count, passes, built>>
    /\ UNCHANGED <<truncVars, normVars, pubVars>>

\* lines 49-62: the tags, the html and the dictionary returned
ReturnPost ==
    /\ parse_pc = "rest"
    /\ tags' = ParsedTags(metadata.tags)
    /\ \E importable \in BOOLEAN : html' = markdown_to_html(p_body, importable)
    /\ short' = metadata.short
    /\ content' = Strip(p_body)
    /\ parse_pc' = "done"
    /\ UNCHANGED <<doc, metadata, p_body>>
    /\ UNCHANGED <<title, max_length, pc, chunks, total, suffix_length,
                   new_suffix_length, iteration_count, passes, built>>
    /\ UNCHANGED <<image_path, norm_pc, summary, hashtags, email_html>>
    /\ UNCHANGED <<truncVars, pubVars>>

ParseNext ==
    \/ ReadFrontmatter
    \/ DeriveTitle
    \/ ReturnPost

SpecParse == ParseInit /\ [][ParseNext]_vars

----------------------------------------------------------------------------
(* Claims about the thread chunker *)

\* C1: whenever create_thread_chunks returns more than one chunk, every returned
\* chunk, marker included, is at most max_length long.
C1_MarkedChunksFit ==
    (pc = "done" /\ Len(chunks) > 1)
        => \A i \in 1 .. Len(chunks) : Len(chunks[i]) <= max_length

\* C2: whenever create_thread_chunks returns exactly one chunk, that chunk is the
\* output of the chunk-building pass as it stands, with no marker appended.
C2_SingleChunkUnmarked ==
    (pc = "done" /\ Len(chunks) = 1) => chunks = built

\* C3: the result of truncate_text(s, L) is at most L long.
C3_TruncateFits ==
    t_pc \in {"once", "twice"} => Len(t_out) <= t_max

\* C4: truncate_text(truncate_text(s, L), L) = truncate_text(s, L).
C4_TruncateIdempotent ==
    t_pc = "twice" => t_again = t_out

\* the steps the call has left at most: what remains of the loop's five runs, and
\* the statements around the loop
StepsLeft ==
    CASE pc = "start" -> LoopCap + 4
      [] pc = "suffix" -> LoopCap + 3
      [] pc = "loop" -> (LoopCap - iteration_count) + 2
      [] pc = "mark" -> 1
      [] OTHER -> 0

\* C5: for every body, title and max_length, however small, the call cannot run
\* for ever: each step leaves fewer steps to go and there are never fewer than
\* none; the body of the correction loop runs at most 5 times; and what the call
\* returns is a list of at least one chunk.
C5_TerminatesWithinCap ==
    /\ [][StepsLeft' < StepsLeft]_vars
    /\ [](StepsLeft >= 0)
    /\ [](passes <= LoopCap)
    /\ [](pc = "done" => (StepsLeft = 0 /\ Len(chunks) >= 1))

C5_CapReached ==
    /\ pc = "done"
    /\ passes = LoopCap
    /\ new_suffix_length # suffix_length
    /\ Len(chunks) > 1

\* the words of every string of a list, in list order
RECURSIVE FlatWords(_)
FlatWords(ss) ==
    IF ss = <<>> THEN <<>> ELSE Words(Head(ss), 1) \o FlatWords(Tail(ss))

IsSuffix(a, b) == Len(a) <= Len(b) /\ a = SubSeq(b, Len(b) - Len(a) + 1, Len(b))
IsPrefix(a, b) == Len(a) <= Len(b) /\ a = SubSeq(b, 1, Len(a))

\* chunk i as returned keeps the text of chunk i as built: as it is, with its
\* marker, or with its marker and cut short
KeepsPlace(i) ==
    LET marked == built[i] \o Marker(i, total)
        kept == SubSeq(chunks[i], 1, Len(chunks[i]) - Len(Ellipsis))
    IN  \/ chunks[i] = built[i]
        \/ chunks[i] = marked
        \/ /\ Len(chunks[i]) >= Len(Ellipsis)
           /\ IsSuffix(Ellipsis, chunks[i])
           /\ IsPrefix(kept, marked)

\* C6: read in list order, the chunks give the words of the body's paragraphs in
\* the order of the body (after whatever the first chunk holds of the title), and
\* the returned list keeps every chunk at the place it was built at.
C6_OrderPreserved ==
    pc = "done" =>
        /\ IsSuffix(FlatWords(Paragraphs(content)), FlatWords(built))
        /\ Len(chunks) = Len(built)
        /\ \A i \in 1 .. Len(chunks) : KeepsPlace(i)

C6_SeveralChunksInOrder ==
    /\ pc = "done"
    /\ Len(chunks) >= 3
    /\ Len(Paragraphs(content)) >= 2
    /\ Paragraphs(content)[1] # Paragraphs(content)[2]
    /\ FlatWords(<<built[2]>>) # FlatWords(<<built[3]>>)

----------------------------------------------------------------------------
(* Claims about normalize_for_platforms *)

\* C7: for every title, every short hint or none, and every body, the summary
\* that normalize_for_platforms returns is at most 280 long.
C7_SummaryFits ==
    norm_pc = "done" => Len(summary) <= SummaryLimit

\* the places of the document where an <h1> element opens
H1Opens(email) == {i \in 1 .. Len(email) : email[i] = "<h1>"}

\* C8: the document build_substack_email returns holds exactly one <h1> element,
\* whose text is the title, and holds the image placeholder exactly when an
\* image was given.
C8_EmailOneHeading ==
    norm_pc = "done" =>
        /\ Cardinality(H1Opens(email_html)) = 1
        /\ \A i \in H1Opens(email_html) :
               /\ i + Len(title) + 1 <= Len(email_html)
               /\ SubSeq(email_html, i + 1, i + Len(title) + 1) = title \o <<"</h1>">>
        /\ (\E i \in 1 .. Len(email_html) : email_html[i] = CoverImage)
               <=> (image_path # NoPath)

----------------------------------------------------------------------------
(* Claims about ATProtoPublisher *)

\* C9: while post_thread_with_hashtags posts a thread of several chunks, the
\* backend receives the chunks in their order, the first with no reply
\* reference, each later one with the post made for the chunk before it as
\* parent and the post made for the first chunk as root, and a chunk is sent
\* only when the send of every chunk before it has returned.
C9_ThreadLinked ==
    Len(p_thread) > 1 =>
        /\ Len(backend) <= Len(p_thread)
        /\ Len(backend) <= Len(posts) + 1
        /\ \A k \in 1 .. Len(posts) : posts[k] = k
        /\ \A k \in 1 .. Len(backend) :
               /\ backend[k].text = p_thread[k]
               /\ backend[k].reply =
                      IF k = 1 THEN NoReply ELSE [parent |-> k - 1, root |-> 1]

C9_ThreeChunksPosted ==
    /\ pub_pc = "returned"
    /\ results = AllFlags(TRUE)
    /\ Len(posts) = 3
    /\ p_thread[1] # p_thread[2]
    /\ p_thread[2] # p_thread[3]
    /\ backend[3].reply = [parent |-> 2, root |-> 1]

\* C10: a failure of the backend during publish (the login, the upload, a send)
\* never leaves publish as an exception; publish returns a result that has a
\* flag for each of Bluesky, Flashes, Skylight and Pinksky, and the command that
\* called publish reports each of the four at the end of its AT-Protocol block.
C10_FailuresReturned ==
    LET called == "atproto" \in DOMAIN creds /\ creds["atproto"]
    IN  /\ ~raised
        /\ pub_pc = "returned" => DOMAIN results = Platforms
        /\ (called /\ pub_pc = "reported") =>
               /\ DOMAIN results = Platforms
               /\ {cli_success[i] : i \in 1 .. Len(cli_success)}
                      \cup {cli_failed[i] : i \in 1 .. Len(cli_failed)} = Platforms

----------------------------------------------------------------------------
(* Claims about the reserved marker width *)

\* every chunk of the last chunk-building pass is within the budget it ran with
BuiltWithinBudget ==
    \A i \in 1 .. Len(built) : Len(built[i]) <= max_length - suffix_length

\* C12 as stated: whenever create_thread_chunks returns more than one chunk, the
\* width reserved for the last chunk-building pass is the width of the marker
\* of the returned count.
C12_ReservationConverged ==
    (pc = "done" /\ Len(chunks) > 1) => suffix_length = SuffixLength(Len(chunks))

\* C12 as amended: whenever create_thread_chunks returns more than one chunk,
\* the width reserved for the last chunk-building pass is the width of the
\* marker of the returned count, unless the correction loop ran its 5 times.
C12_ConvergedUnlessCapped ==
    (pc = "done" /\ Len(chunks) > 1) =>
        \/ suffix_length = SuffixLength(Len(chunks))
        \/ iteration_count = LoopCap

C12_ConvergedAfterCorrection ==
    /\ pc = "done"
    /\ Len(chunks) > 1
    /\ passes >= 1
    /\ iteration_count < LoopCap
    /\ suffix_length = SuffixLength(Len(chunks))
    /\ suffix_length # SuffixLength(2)

\* chunk i of the returned list is chunk i as built with its marker behind it
MarkerIntact(i) == chunks[i] = built[i] \o Marker(i, Len(chunks))

\* C13 as stated: whenever the reserved width is the width of the marker of the
\* returned count, the safety net changes no chunk and every returned chunk
\* ends with its whole marker.
C13_ConvergedMeansIntact ==
    (pc = "done" /\ Len(chunks) > 1 /\ suffix_length = SuffixLength(Len(chunks)))
        => \A i \in 1 .. Len(chunks) :
               MarkerIntact(i) /\ Len(chunks[i]) <= max_length

\* C13 as amended: whenever the reserved width is the width of the marker of
\* the returned count and the last pass built no chunk beyond its budget, the
\* safety net changes no chunk and every returned chunk ends with its whole
\* marker.
C13_IntactWithinBudget ==
    (pc = "done" /\ Len(chunks) > 1 /\ suffix_length = SuffixLength(Len(chunks))
         /\ BuiltWithinBudget)
        => \A i \in 1 .. Len(chunks) :
               MarkerIntact(i) /\ Len(chunks[i]) <= max_length

C13_FullChunkKeepsMarker ==
    /\ pc = "done"
    /\ Len(chunks) > 2
    /\ suffix_length = SuffixLength(Len(chunks))
    /\ BuiltWithinBudget
    /\ \E i \in 1 .. Len(chunks) :
           MarkerIntact(i) /\ Len(chunks[i]) = max_length

----------------------------------------------------------------------------
(* Claims about the texts publish submits *)

\* the first chunk with the hashtags behind it, a blank line between
Tagged == in_thread[1] \o <<NL, NL>> \o JoinBlank(p_hashtags)

\* C15: if every chunk of content['thread'] is at most 300 long, every text
\* publish submits is at most 300 long: the first is the first chunk with the
\* hashtags behind it when there are hashtags and that text fits in 300, the
\* first chunk as it is otherwise, and every later text is its chunk as it is.
C15_PostsFit ==
    (entry = "publish" /\ \A k \in 1 .. Len(in_thread) : Len(in_thread[k]) <= PostLimit)
        => \A k \in 1 .. Len(backend) :
               /\ Len(backend[k].text) <= PostLimit
               /\ k > 1 => backend[k].text = in_thread[k]
               /\ k = 1 => backend[k].text =
                      IF p_hashtags # <<>> /\ Len(Tagged) <= PostLimit
                      THEN Tagged ELSE in_thread[1]

C15_TaggedPostFillsLimit ==
    /\ pub_pc = "returned"
    /\ results = AllFlags(TRUE)
    /\ Len(backend) >= 2
    /\ \A k \in 1 .. Len(in_thread) : Len(in_thread[k]) <= PostLimit
    /\ backend[1].text = Tagged
    /\ Len(backend[1].text) = PostLimit

----------------------------------------------------------------------------
(* Claims about ATProtoPublisher.post_thread *)

\* C14: one call of post_thread(chunks) hands the backend each chunk once, in
\* order: never more posts than chunks, and when the call has returned, as many
\* posts as chunks, the k-th with the text of the k-th chunk.
C14_EachChunkOnce ==
    entry = "post_thread" =>
        /\ Len(backend) <= Len(in_thread)
        /\ pub_pc = "returned" =>
               /\ Len(backend) = Len(in_thread)
               /\ \A k \in 1 .. Len(backend) : backend[k].text = in_thread[k]

----------------------------------------------------------------------------
(* Claims about parse_markdown_post *)

\* C11: for every file, with a frontmatter block or without, closed or not,
\* with a level-one heading or without, the title parse_markdown_post returns
\* is not empty: it is the title of the metadata when there is one, and the
\* default when there is neither that nor a line that matches as a heading.
C11_TitleNonEmpty ==
    parse_pc = "done" =>
        /\ title # <<>>
        /\ metadata.title # <<>> => title = metadata.title
        /\ (metadata.title = <<>>
                /\ \A q \in 1 .. Len(p_body) : ~HeadingMatch(p_body, q, 1).ok)
               => title = DefaultTitle

====
